---------------------------- MODULE Spec2Model ----------------------------
(***************************************************************************)
(* Model of sqllite2influxdb.py: the one-shot copy of Home Assistant state *)
(* rows from SQLite into InfluxDB.                                         *)
(*                                                                         *)
(* Two specifications are given.                                           *)
(*   Spec      main(): watermark query, query planning, cursor.execute,    *)
(*             cursor.fetchall, the fetchmany loop, the finally block; a   *)
(*             first run that may be killed and a second run over the same *)
(*             stores.                                                     *)
(*   ConvSpec  batch_insert_to_influx(write_api, rows) applied to a batch  *)
(*             of rows, one loop iteration per step.                       *)
(*                                                                         *)
(* Python values are records [t, s, n]: t is the Python type, s the        *)
(* characters of a str (a sequence of one-character strings; "sup2" names  *)
(* U+00B2), n the value of an int/float.                                   *)
(***************************************************************************)
EXTENDS Integers, Sequences, FiniteSets, TLC

VARIABLES
    \* ---- main() ----
    pc,                       \* position in main()
    run,                      \* 1: first run (may be killed), 2: the later run
    source,                   \* the rows of the SQLite join, in rowid order
    batch_size,               \* BATCH_SIZE
    tz,                       \* the host's UTC offset in seconds
    oldest_influx_timestamp,  \* main's local: None or the datetime found
    formatted_timestamp,      \* main's local: None or the strftime text
    sqlite_query,             \* main's local: the query that was built
    cursor,                   \* rows the cursor has not handed out yet
    total_rows,               \* main's local
    rows_fetched,             \* main's local
    \* ---- batch_insert_to_influx ----
    rows,                     \* the batch being converted
    idx,                      \* index of the next row of the for loop
    status,                   \* "idle" | "running" | "returned" | "raised"
    raisedAt,                 \* row whose exception left the function, or 0
    \* ---- the stores and the log ----
    target,                   \* points held by the InfluxDB bucket
    log,                      \* this process's logging.warning / .error records
    \* ---- history ----
    writes,                   \* this process's write_api.write calls: row, point, ok
    built,                    \* rows for which Point(...) was constructed
    result,                   \* what cursor.execute selected, in order
    handed,                   \* concatenation of the batches handed to conversion
    cycles,                   \* fetchmany calls that returned rows
    wmOutcome                 \* what the watermark query answered this run

vars == <<pc, run, source, batch_size, tz, oldest_influx_timestamp,
          formatted_timestamp, sqlite_query, cursor, total_rows, rows_fetched,
          rows, idx, status, raisedAt, target, log, writes, built, result,
          handed, cycles, wmOutcome>>

mainVars == <<pc, run, source, batch_size, oldest_influx_timestamp,
              formatted_timestamp, sqlite_query, cursor, total_rows,
              rows_fetched, result, handed, cycles, wmOutcome>>

-----------------------------------------------------------------------------
(* Python values *)

None == [t |-> "none", s |-> <<>>, n |-> 0]
Str(chars) == [t |-> "str", s |-> chars, n |-> 0]
Num(k) == [t |-> "num", s |-> <<>>, n |-> k]
List == [t |-> "list", s |-> <<>>, n |-> 0]

DecimalChars == <<"0", "1", "2", "3", "4", "5", "6", "7", "8", "9">>

IsDecimalChar(c) == \E d \in 1..10 : DecimalChars[d] = c

DecimalValue(c) == (CHOOSE d \in 1..10 : DecimalChars[d] = c) - 1

\* str.isdigit() of one character: the decimal digits and the digit-like
\* code points such as U+00B2, which float() does not accept.
IsDigitChar(c) == IsDecimalChar(c) \/ c = "sup2"

\* str.isdigit(): non-empty and every character a digit.
IsDigit(chars) == Len(chars) > 0 /\ \A i \in 1..Len(chars) : IsDigitChar(chars[i])

HasChar(chars, c) == \E i \in 1..Len(chars) : chars[i] = c

FirstIndex(chars, c) == CHOOSE i \in 1..Len(chars) :
                            chars[i] = c /\ \A j \in 1..(i - 1) : chars[j] # c

\* chars.replace(c, '', 1)
ReplaceFirst(chars, c) ==
    IF HasChar(chars, c)
    THEN LET i == FirstIndex(chars, c)
         IN SubSeq(chars, 1, i - 1) \o SubSeq(chars, i + 1, Len(chars))
    ELSE chars

\* chars.partition(c)
Partition(chars, c) ==
    IF HasChar(chars, c)
    THEN LET i == FirstIndex(chars, c)
         IN <<SubSeq(chars, 1, i - 1), <<c>>, SubSeq(chars, i + 1, Len(chars))>>
    ELSE <<chars, <<>>, <<>>>>

RECURSIVE DecimalToInt(_)
DecimalToInt(chars) ==
    IF chars = <<>> THEN 0
    ELSE 10 * DecimalToInt(SubSeq(chars, 1, Len(chars) - 1))
         + DecimalValue(chars[Len(chars)])

\* A float as a decimal: (-1)^neg * mant * 10^(-scale), trailing zeros dropped.
RECURSIVE Normalize(_)
Normalize(f) ==
    IF f.scale > 0 /\ f.mant % 10 = 0
    THEN Normalize([f EXCEPT !.mant = f.mant \div 10, !.scale = f.scale - 1])
    ELSE f

\* float() of the text of a str: an optional sign, decimal digits with at most
\* one '.', at least one digit.  Any other text over the characters used here
\* is ValueError (exponents, 'inf', 'nan' and blanks are not among them).
IsFloatText(chars) ==
    LET body == IF Len(chars) > 0 /\ chars[1] = "-" THEN Tail(chars) ELSE chars
        digits == ReplaceFirst(body, ".")
    IN Len(digits) > 0 /\ \A i \in 1..Len(digits) : IsDecimalChar(digits[i])

FloatOfText(chars) ==
    LET neg == Len(chars) > 0 /\ chars[1] = "-"
        body == IF neg THEN Tail(chars) ELSE chars
        frac == IF HasChar(body, ".") THEN Len(body) - FirstIndex(body, ".") ELSE 0
    IN Normalize([neg |-> neg, mant |-> DecimalToInt(ReplaceFirst(body, ".")),
                  scale |-> frac])

NoFloat == [neg |-> FALSE, mant |-> 0, scale |-> 0]

\* float(v): the value, or the exception raised.
Float(v) ==
    CASE v.t = "num" -> [err |-> "", val |-> [neg |-> v.n < 0,
                                              mant |-> IF v.n < 0 THEN -v.n ELSE v.n,
                                              scale |-> 0]]
      [] v.t = "str" -> IF IsFloatText(v.s)
                        THEN [err |-> "", val |-> FloatOfText(v.s)]
                        ELSE [err |-> "ValueError", val |-> NoFloat]
      [] OTHER -> [err |-> "TypeError", val |-> NoFloat]

\* isinstance(v, (int, float)) or (isinstance(v, str) and
\* v.replace('.', '', 1).isdigit())
LooksNumeric(v) ==
    \/ v.t = "num"
    \/ v.t = "str" /\ IsDigit(ReplaceFirst(v.s, "."))

RECURSIVE NatToDecimal(_)
NatToDecimal(k) ==
    IF k < 10 THEN <<DecimalChars[k + 1]>>
    ELSE Append(NatToDecimal(k \div 10), DecimalChars[(k % 10) + 1])

\* str(v): a str is itself, None is 'None', a number its decimal text (an
\* int; a float would end in '.0'), a list its repr.
StrOf(v) ==
    CASE v.t = "str" -> v
      [] v.t = "none" -> Str(<<"N", "o", "n", "e">>)
      [] v.t = "num" -> Str(IF v.n < 0 THEN <<"-">> \o NatToDecimal(-v.n)
                            ELSE NatToDecimal(v.n))
      [] OTHER -> Str(<<"[", "]">>)

-----------------------------------------------------------------------------
(* Rows and attribute blobs *)

\* shared_attrs: NULL, text that is not JSON, or JSON text.  JSON text decodes
\* to an object (its items in order, keys distinct) or to some other value.
NullBlob == [kind |-> "null", isobject |-> FALSE, items |-> <<>>]
MalformedBlob == [kind |-> "malformed", isobject |-> FALSE, items |-> <<>>]
NonObjectBlob == [kind |-> "json", isobject |-> FALSE, items |-> <<>>]
ObjectBlob(items) == [kind |-> "json", isobject |-> TRUE, items |-> items]

Item(k, v) == [k |-> k, v |-> v]

\* parse_attributes: json.loads, with TypeError (None) and JSONDecodeError
\* caught, logged and replaced by {}.
parse_attributes(shared_attrs) ==
    IF shared_attrs.kind = "json"
    THEN [isdict |-> shared_attrs.isobject, items |-> shared_attrs.items,
          warned |-> FALSE]
    ELSE [isdict |-> TRUE, items |-> <<>>, warned |-> TRUE]

HasKey(items, k) == \E i \in 1..Len(items) : items[i].k = k

\* dict.get(k, default)
Get(items, k, default) ==
    IF HasKey(items, k)
    THEN items[CHOOSE i \in 1..Len(items) : items[i].k = k].v
    ELSE default

DEFAULT_MEASUREMENT ==
    Str(<<"d", "e", "f", "a", "u", "l", "t", "_",
          "m", "e", "a", "s", "u", "r", "e", "m", "e", "n", "t">>)

S_unknown == <<"u", "n", "k", "n", "o", "w", "n">>
S_unavailable == <<"u", "n", "a", "v", "a", "i", "l", "a", "b", "l", "e">>

\* Variant: the filter knows only "unknown".
SentinelStatesUnknownOnly == {Str(S_unknown)}

\* state in ["unknown", "unavailable"]
SentinelStates == {Str(S_unknown), Str(S_unavailable)}

SkippedKeys == {"id", "id_str", "update_available"}

ForcedFloatKeys == {"temperature", "humidity"}

-----------------------------------------------------------------------------
(* Points *)

FloatField(f) == [type |-> "float", num |-> f, text |-> <<>>]
StringField(v) == [type |-> "string", num |-> NoFloat, text |-> v.s]

\* Point.field(name, value): a later value for a name replaces the earlier.
SetField(fields, name, fv) ==
    [x \in (DOMAIN fields) \cup {name} |-> IF x = name THEN fv ELSE fields[x]]

NoFields == [x \in {} |-> FloatField(NoFloat)]

\* The primary field: 'value' as a float when the state looks numeric,
\* otherwise 'state' as a string.  float() may raise ValueError.
PrimaryField(state) ==
    IF LooksNumeric(state)
    THEN [err |-> Float(state).err, name |-> "value",
          fv |-> FloatField(Float(state).val)]
    ELSE [err |-> "", name |-> "state", fv |-> StringField(StrOf(state))]

\* One attribute: skipped, a field, or an exception caught and logged.
AttributeField(k, v) ==
    IF k \in SkippedKeys \/ v.t = "none"
    THEN [kind |-> "skip", fv |-> FloatField(NoFloat)]
    ELSE IF k \in ForcedFloatKeys \/ LooksNumeric(v)
         THEN IF Float(v).err = ""
              THEN [kind |-> "field", fv |-> FloatField(Float(v).val)]
              ELSE [kind |-> "warn", fv |-> FloatField(NoFloat)]
         ELSE [kind |-> "field", fv |-> StringField(StrOf(v))]

\* The loop over attributes_json.items(): the fields after it, and the keys
\* whose conversion raised.
RECURSIVE AttributeFields(_, _, _)
AttributeFields(items, fields, warned) ==
    IF items = <<>> THEN [fields |-> fields, warned |-> warned]
    ELSE LET a == AttributeField(Head(items).k, Head(items).v)
         IN AttributeFields(Tail(items),
                IF a.kind = "field" THEN SetField(fields, Head(items).k, a.fv)
                ELSE fields,
                IF a.kind = "warn" THEN Append(warned, Head(items).k) ELSE warned)

RECURSIVE Pow10(_)
Pow10(k) == IF k = 0 THEN 1 ELSE 10 * Pow10(k - 1)

\* datetime.fromtimestamp(f): the naive local time of the instant f, as whole
\* seconds and the fraction's digits.  The client library reads a naive time
\* as UTC, so the point is stored at the instant shifted by the UTC offset.
FromTimestamp(f, offset) ==
    [sec |-> (IF f.neg THEN -1 ELSE 1) * (f.mant \div Pow10(f.scale)) + offset,
     frac |-> f.mant % Pow10(f.scale), scale |-> f.scale]

NoTime == [sec |-> 0, frac |-> 0, scale |-> 0]

NoPoint == [measurement |-> None, domain |-> <<>>, entity_id |-> <<>>,
            friendly_name |-> None, time |-> NoTime, fields |-> NoFields]

Outcome(kind, err, point, warned, parsewarn, constructed) ==
    [kind |-> kind, err |-> err, point |-> point, warned |-> warned,
     parsewarn |-> parsewarn, built |-> constructed]

\* One iteration of the for loop up to the write: what becomes of the row.
\*   "continue"  the sentinel states
\*   "raise"     an exception no handler of the function catches
\*   "skip"      ValueError caught by the outer handler
\*   "point"     a point ready to be written
ConvertRow(row, offset) ==
    IF row.state \in SentinelStates
    THEN Outcome("continue", "", NoPoint, <<>>, FALSE, FALSE)
    ELSE
    LET parts == Partition(row.entity_id, ".")
        attributes_json == parse_attributes(row.shared_attrs)
        pw == attributes_json.warned
    IN
    IF ~attributes_json.isdict
    THEN Outcome("raise", "AttributeError", NoPoint, <<>>, pw, FALSE)
    ELSE
    LET items == attributes_json.items
        friendly_name == Get(items, "friendly_name", Str(parts[3]))
        unit_of_measurement == Get(items, "unit_of_measurement", DEFAULT_MEASUREMENT)
        ts == Float(row.last_updated_ts)
        primary == PrimaryField(row.state)
    IN
    IF ts.err = "TypeError"
    THEN Outcome("raise", "TypeError", NoPoint, <<>>, pw, FALSE)
    ELSE IF ts.err = "ValueError" \/ primary.err = "ValueError"
    THEN Outcome("skip", "ValueError", NoPoint, <<>>, pw, ts.err = "")
    ELSE
    LET af == AttributeFields(items, SetField(NoFields, primary.name, primary.fv), <<>>)
    IN Outcome("point", "",
               [measurement |-> unit_of_measurement,
                domain |-> parts[1], entity_id |-> parts[3],
                friendly_name |-> friendly_name,
                time |-> FromTimestamp(ts.val, offset),
                fields |-> af.fields],
               af.warned, pw, TRUE)

-----------------------------------------------------------------------------
(* batch_insert_to_influx *)

LogEntry(level, what, row) == [level |-> level, what |-> what, row |-> row]

\* A point's identity in the bucket: measurement, tag set and time.
PointKey(p) == <<p.measurement, p.domain, p.entity_id, p.friendly_name, p.time>>

\* Variant: the write is not guarded, so a failure leaves the function.
WritePointUncaught(cs, i, point, ok) ==
    IF ok
    THEN [cs EXCEPT
            !.writes = Append(@, [row |-> i, point |-> point, ok |-> TRUE]),
            !.target = {q \in @ : PointKey(q) # PointKey(point)} \cup {point}]
    ELSE [cs EXCEPT
            !.writes = Append(@, [row |-> i, point |-> point, ok |-> FALSE]),
            !.status = "raised", !.raisedAt = i]

\* write_api.write of one point inside try/except Exception: a failure is
\* logged and the loop goes on.
WritePoint(cs, i, point, ok) ==
    [cs EXCEPT
        !.writes = Append(@, [row |-> i, point |-> point, ok |-> ok]),
        !.target = IF ok
                   THEN {q \in @ : PointKey(q) # PointKey(point)} \cup {point}
                   ELSE @,
        !.log = IF ok THEN @ ELSE Append(@, LogEntry("error", "write", i))]

RECURSIVE FieldWarnings(_, _)
FieldWarnings(warned, i) ==
    IF warned = <<>> THEN <<>>
    ELSE <<LogEntry("warning", "field", i)>> \o FieldWarnings(Tail(warned), i)

\* The body of `for row in rows` for row i; ok is whether the target store
\* accepts the write, if one is issued.
ProcessRow(cs, row, i, offset, ok) ==
    LET o == ConvertRow(row, offset)
        logged == [cs EXCEPT
            !.log = @ \o (IF o.parsewarn
                          THEN <<LogEntry("warning", "parse_attributes", i)>>
                          ELSE <<>>)
                      \o FieldWarnings(o.warned, i)
                      \o (IF o.kind = "skip"
                          THEN <<LogEntry("warning", "point", i)>>
                          ELSE <<>>),
            !.built = IF o.built THEN @ \cup {i} ELSE @]
    IN CASE o.kind = "continue" -> cs
         [] o.kind = "raise" -> [logged EXCEPT !.status = "raised", !.raisedAt = i]
         [] o.kind = "skip" -> logged
         [] OTHER -> WritePoint(logged, i, o.point, ok)

ConvState(st, ra, tg, lg, wr, bl) ==
    [status |-> st, raisedAt |-> ra, target |-> tg, log |-> lg, writes |-> wr,
     built |-> bl]

\* The whole call: rows i.. of the batch, until the end or an exception;
\* failing is the set of rows whose write the target store rejects.
RECURSIVE batch_insert_to_influx(_, _, _, _, _)
batch_insert_to_influx(cs, batch, i, offset, failing) ==
    IF cs.status = "raised" THEN cs
    ELSE IF i > Len(batch) THEN [cs EXCEPT !.status = "returned"]
    ELSE batch_insert_to_influx(
             ProcessRow(cs, batch[i], i, offset, i \notin failing),
             batch, i + 1, offset, failing)

-----------------------------------------------------------------------------
(* Sample data *)

\* 2024-01-01T00:00:00Z: day 19723 of the epoch.
T0 == 19723 * 86400

S_on == <<"o", "n">>
S_C == <<"C">>
E_temp == <<"s", ".", "t">>
E_door == <<"b", ".", "d">>

Row(state, entity_id, ts, shared_attrs) ==
    [state |-> state, entity_id |-> entity_id, last_updated_ts |-> ts,
     shared_attrs |-> shared_attrs]

R_temp ==
    Row(Str(<<"2", "1", ".", "5">>), E_temp, Num(T0 - 1),
        ObjectBlob(<<Item("friendly_name", Str(<<"T">>)),
                     Item("unit_of_measurement", Str(S_C)),
                     Item("a", Str(<<"1">>))>>))
R_door ==
    Row(Str(S_on), E_door, Num(T0),
        ObjectBlob(<<Item("unit_of_measurement", Str(S_C)),
                     Item("a", Str(<<"x">>))>>))
R_unavailable == Row(Str(S_unavailable), E_temp, None, NonObjectBlob)
R_unknown == Row(Str(S_unknown), E_door, Num(T0), ObjectBlob(<<>>))
R_array_attrs == Row(Str(S_on), E_door, Num(T0 + 1), NonObjectBlob)
R_null_ts == Row(Str(S_on), E_door, None, ObjectBlob(<<>>))
R_text_ts == Row(Str(S_on), E_door, Str(<<"a", "b", "c">>), NullBlob)
R_sup2 == Row(Str(<<"sup2">>), E_temp, Num(T0), MalformedBlob)
R_empty_unit ==
    Row(Num(7), E_temp, Num(T0 + 1),
        ObjectBlob(<<Item("unit_of_measurement", Str(<<>>)),
                     Item("id", Num(3))>>))
R_state_attr ==
    Row(None, E_temp, Str(<<"1", "7", ".", "5">>),
        ObjectBlob(<<Item("unit_of_measurement", Str(S_C)),
                     Item("state", Num(5)),
                     Item("temperature", Str(<<"x">>)),
                     Item("humidity", Str(<<"-", "3">>)),
                     Item("b", None), Item("c", List)>>))

\* Rows given to batch_insert_to_influx.
ConvRows == {R_temp, R_door, R_unavailable, R_unknown, R_array_attrs, R_null_ts,
             R_text_ts, R_sup2, R_empty_unit, R_state_attr}

\* Rows of the source join: last_updated_ts holds a number or NULL.
SrcRows == {R_temp, R_door, R_empty_unit, R_null_ts}

TzOffsets == {0, 3600}

MaxBatchRows == 2

Batches == UNION {[1..n -> ConvRows] : n \in 1..MaxBatchRows}

-----------------------------------------------------------------------------
(* Watermark and source query *)

\* The UTC calendar fields of the instant T (seconds since the epoch), as
\* record.get_time() holds them.
Civil(T) ==
    LET z == (T \div 86400) + 719468
        sod == T % 86400
        era == z \div 146097
        doe == z % 146097
        yoe == (doe - doe \div 1460 + doe \div 36524 - doe \div 146096) \div 365
        doy == doe - (365 * yoe + yoe \div 4 - yoe \div 100)
        mp == (5 * doy + 2) \div 153
        m == IF mp < 10 THEN mp + 3 ELSE mp - 9
    IN [year |-> yoe + era * 400 + (IF m <= 2 THEN 1 ELSE 0), month |-> m,
        day |-> doy - (153 * mp + 2) \div 5 + 1,
        hour |-> sod \div 3600, minute |-> (sod % 3600) \div 60,
        second |-> sod % 60]

NoTimestamp == [present |-> FALSE, dt |-> Civil(0)]

S_units == <<"u", "n", "i", "t", "s">>

\* The tables the Flux query returns: one per series (tag set and field) of
\* measurement "units", each sorted by time and cut to its first record.
FieldNames(store) == UNION {DOMAIN p.fields : p \in store}

UnitsTables(store) ==
    {<<pf[1].domain, pf[1].entity_id, pf[1].friendly_name, pf[2]>> :
        pf \in {x \in store \X FieldNames(store) :
                  /\ x[1].measurement = Str(S_units)
                  /\ x[2] \in DOMAIN x[1].fields}}

TableTimes(store, key) ==
    {p.time.sec : p \in {q \in store :
        /\ q.measurement = Str(S_units)
        /\ <<q.domain, q.entity_id, q.friendly_name>> = <<key[1], key[2], key[3]>>
        /\ key[4] \in DOMAIN q.fields}}

Min(S) == CHOOSE x \in S : \A y \in S : x <= y

NoOutcome == [kind |-> "none", first |-> -1]

\* What query_api.query can answer: an exception, or the tables, of which
\* result[0] is any one (-1: no table).
QueryOutcomes(store) ==
    {[kind |-> "raise", first |-> -1]}
    \cup (IF UnitsTables(store) = {}
          THEN {[kind |-> "tables", first |-> -1]}
          ELSE {[kind |-> "tables", first |-> Min(TableTimes(store, k))] :
                    k \in UnitsTables(store)})

\* Variant: a failed watermark query ends the process.
get_oldest_fail_closed(outcome) ==
    IF outcome.kind = "raise"
    THEN [value |-> NoTimestamp, logged |-> TRUE, exits |-> TRUE]
    ELSE IF outcome.first >= 0
         THEN [value |-> [present |-> TRUE, dt |-> Civil(outcome.first)],
               logged |-> FALSE, exits |-> FALSE]
         ELSE [value |-> NoTimestamp, logged |-> FALSE, exits |-> FALSE]

\* get_oldest_influx_timestamp: the ISO text of result[0].records[0], or None;
\* an exception is logged and None returned.
get_oldest_influx_timestamp(outcome) ==
    IF outcome.kind = "raise"
    THEN [value |-> NoTimestamp, logged |-> TRUE, exits |-> FALSE]
    ELSE IF outcome.first >= 0
         THEN [value |-> [present |-> TRUE, dt |-> Civil(outcome.first)],
               logged |-> FALSE, exits |-> FALSE]
         ELSE [value |-> NoTimestamp, logged |-> FALSE, exits |-> FALSE]

Pad2(k) == <<DecimalChars[(k \div 10) + 1], DecimalChars[(k % 10) + 1]>>

Pad4(k) == Pad2(k \div 100) \o Pad2(k % 100)

\* format_timestamp: strftime("%Y-%m-%d %H:%M:%S") of the parsed ISO text.
format_timestamp(oldest) ==
    Str(Pad4(oldest.dt.year) \o <<"-">> \o Pad2(oldest.dt.month) \o <<"-">>
        \o Pad2(oldest.dt.day) \o <<" ">> \o Pad2(oldest.dt.hour) \o <<":">>
        \o Pad2(oldest.dt.minute) \o <<":">> \o Pad2(oldest.dt.second))

\* Python truth of None or a str.
Truthy(v) == v.t = "str" /\ Len(v.s) > 0

\* build_sqlite_query: with a timestamp, WHERE s.last_updated_ts < '<text>';
\* always ORDER BY s.last_updated_ts ASC.
build_sqlite_query(formatted) ==
    IF Truthy(formatted) THEN [where |-> TRUE, bound |-> formatted]
    ELSE [where |-> FALSE, bound |-> None]

\* SQLite's  column < 'text'  for a column of REAL affinity: NULL compares
\* to nothing; numeric affinity turns the literal into a number when it is
\* the text of one; a number is less than any text.  (A column value of
\* class TEXT is outside SrcRows.)
WhereSelects(column, literal) ==
    CASE column.t = "none" -> FALSE
      [] column.t = "num" ->
            IF IsFloatText(literal.s)
            THEN LET f == FloatOfText(literal.s)
                 IN column.n * Pow10(f.scale) < (IF f.neg THEN -f.mant ELSE f.mant)
            ELSE TRUE

\* ORDER BY last_updated_ts ASC: NULL first, then by value.
OrderedBefore(a, b) ==
    \/ a.last_updated_ts.t = "none"
    \/ /\ b.last_updated_ts.t = "num" /\ a.last_updated_ts.t = "num"
       /\ a.last_updated_ts.n <= b.last_updated_ts.n

Selected(table, query) ==
    {i \in 1..Len(table) :
        ~query.where \/ WhereSelects(table[i].last_updated_ts, query.bound)}

\* The result sets cursor.execute may produce: the selected rows in any order
\* that is ascending in last_updated_ts.
QueryResults(table, query) ==
    LET sel == Selected(table, query)
        n == Cardinality(sel)
    IN {[k \in 1..n |-> table[f[k]]] :
            f \in {g \in [1..n -> sel] :
                     /\ \A x, y \in 1..n : x # y => g[x] # g[y]
                     /\ \A x \in 1..(n - 1) :
                            OrderedBefore(table[g[x]], table[g[x + 1]])}}

-----------------------------------------------------------------------------
(* ConvSpec: one call of batch_insert_to_influx *)

MainIdle ==
    /\ pc = "idle" /\ run = 0 /\ source = <<>> /\ batch_size = 0
    /\ oldest_influx_timestamp = NoTimestamp
    /\ formatted_timestamp = None /\ sqlite_query = build_sqlite_query(None)
    /\ cursor = <<>>
    /\ total_rows = <<>> /\ rows_fetched = 0 /\ result = <<>> /\ handed = <<>>
    /\ cycles = 0 /\ wmOutcome = NoOutcome

ConvInit ==
    /\ MainIdle
    /\ rows \in Batches
    /\ tz \in TzOffsets
    /\ idx = 1 /\ status = "running" /\ raisedAt = 0
    /\ target = {} /\ log = <<>> /\ writes = <<>> /\ built = {}

Current == ConvState(status, raisedAt, target, log, writes, built)

Install(cs) ==
    /\ status' = cs.status /\ raisedAt' = cs.raisedAt /\ target' = cs.target
    /\ log' = cs.log /\ writes' = cs.writes /\ built' = cs.built

\* One iteration of the for loop.
Iterate ==
    /\ status = "running" /\ idx <= Len(rows)
    /\ \E ok \in BOOLEAN : Install(ProcessRow(Current, rows[idx], idx, tz, ok))
    /\ idx' = idx + 1
    /\ UNCHANGED <<mainVars, rows, tz>>

\* The loop is exhausted: the function returns.
Return ==
    /\ status = "running" /\ idx > Len(rows)
    /\ status' = "returned"
    /\ UNCHANGED <<mainVars, rows, tz, idx, raisedAt, target, log, writes, built>>

ConvNext == Iterate \/ Return

ConvSpec == ConvInit /\ [][ConvNext]_vars

-----------------------------------------------------------------------------
(* Spec: main() *)

MaxSrcRows == 2

MaxBatchSize == 2

SourceTables == UNION {[1..n -> SrcRows] : n \in 0..MaxSrcRows}

StoredPoint(measurement, entity, sec) ==
    [measurement |-> Str(measurement), domain |-> <<"s">>, entity_id |-> entity,
     friendly_name |-> Str(entity), time |-> [sec |-> sec, frac |-> 0, scale |-> 0],
     fields |-> SetField(NoFields, "value", FloatField(NoFloat))]

\* What the bucket may hold when a run starts.
InitialTargets ==
    { {},
      {StoredPoint(S_C, <<"t">>, T0 - 1)},
      {StoredPoint(S_units, <<"t">>, T0)},
      {StoredPoint(S_units, <<"t">>, T0), StoredPoint(S_units, <<"d">>, T0 + 1)} }

Locals ==
    /\ oldest_influx_timestamp = NoTimestamp
    /\ formatted_timestamp = None
    /\ sqlite_query = build_sqlite_query(None)
    /\ cursor = <<>> /\ total_rows = <<>> /\ rows_fetched = 0
    /\ rows = <<>> /\ idx = 1 /\ status = "idle" /\ raisedAt = 0
    /\ result = <<>> /\ handed = <<>> /\ cycles = 0 /\ wmOutcome = NoOutcome

Init ==
    /\ pc = "start" /\ run = 1
    /\ source \in SourceTables
    /\ batch_size \in 1..MaxBatchSize
    /\ tz \in TzOffsets
    /\ target \in InitialTargets
    /\ log = <<>> /\ writes = <<>> /\ built = {}
    /\ Locals

\* oldest_influx_timestamp = get_oldest_influx_timestamp(query_api)
GetOldest ==
    /\ pc = "start"
    /\ \E outcome \in QueryOutcomes(target) :
        LET r == get_oldest_influx_timestamp(outcome)
        IN /\ oldest_influx_timestamp' = r.value
           /\ wmOutcome' = outcome
           /\ log' = IF r.logged
                     THEN Append(log, LogEntry("error", "influx_query", 0))
                     ELSE log
           /\ pc' = IF r.exits THEN "exit" ELSE "plan"
    /\ UNCHANGED <<run, source, batch_size, tz, formatted_timestamp, sqlite_query,
                   cursor, total_rows, rows_fetched, rows, idx, status, raisedAt,
                   target, writes, built, result, handed, cycles>>

\* formatted_timestamp = ...; sqlite_query = build_sqlite_query(...)
Plan ==
    /\ pc = "plan"
    /\ LET formatted == IF oldest_influx_timestamp.present
                        THEN format_timestamp(oldest_influx_timestamp)
                        ELSE None
       IN /\ formatted_timestamp' = formatted
          /\ sqlite_query' = build_sqlite_query(formatted)
    /\ pc' = "execute"
    /\ UNCHANGED <<run, source, batch_size, tz, oldest_influx_timestamp, cursor,
                   total_rows, rows_fetched, rows, idx, status, raisedAt, target,
                   log, writes, built, result, handed, cycles, wmOutcome>>

\* cursor.execute(sqlite_query); sqlite3.Error is logged and ends the try.
Execute ==
    /\ pc = "execute"
    /\ \/ /\ \E r \in QueryResults(source, sqlite_query) :
                result' = r /\ cursor' = r
          /\ pc' = "fetchall"
          /\ UNCHANGED log
       \/ /\ log' = Append(log, LogEntry("error", "sqlite", 0))
          /\ pc' = "finally"
          /\ UNCHANGED <<result, cursor>>
    /\ UNCHANGED <<run, source, batch_size, tz, oldest_influx_timestamp,
                   formatted_timestamp, sqlite_query, total_rows, rows_fetched,
                   rows, idx, status, raisedAt, target, writes, built, handed,
                   cycles, wmOutcome>>

\* total_rows = cursor.fetchall(): every remaining row leaves the cursor.
FetchAll ==
    /\ pc = "fetchall"
    /\ total_rows' = cursor
    /\ cursor' = <<>>
    /\ rows_fetched' = 0
    /\ pc' = "loop"
    /\ UNCHANGED <<run, source, batch_size, tz, oldest_influx_timestamp,
                   formatted_timestamp, sqlite_query, rows, idx, status, raisedAt,
                   target, log, writes, built, result, handed, cycles, wmOutcome>>

\* cursor.fetchmany(n)
FetchMany(cur, n) == SubSeq(cur, 1, IF n < Len(cur) THEN n ELSE Len(cur))

\* One pass of `while True`: fetchmany, break on no rows, otherwise convert
\* the batch and count it.  An exception out of the conversion leaves the try.
LoopIter ==
    /\ pc = "loop"
    /\ LET batch == FetchMany(cursor, batch_size)
       IN IF batch = <<>>
          THEN /\ pc' = "finally"
               /\ UNCHANGED <<cursor, rows_fetched, rows, idx, status, raisedAt,
                              target, log, writes, built, handed, cycles>>
          ELSE \E failing \in SUBSET (1..Len(batch)) :
                 LET cs == batch_insert_to_influx(
                               ConvState("running", 0, target, log, writes, built),
                               batch, 1, tz, failing)
                 IN /\ Install(cs)
                    /\ cursor' = SubSeq(cursor, Len(batch) + 1, Len(cursor))
                    /\ rows' = batch
                    /\ idx' = Len(batch) + 1
                    /\ handed' = handed \o batch
                    /\ cycles' = cycles + 1
                    /\ rows_fetched' = IF cs.status = "raised" THEN rows_fetched
                                       ELSE rows_fetched + Len(batch)
                    /\ pc' = IF cs.status = "raised" THEN "finally" ELSE "loop"
    /\ UNCHANGED <<run, source, batch_size, tz, oldest_influx_timestamp,
                   formatted_timestamp, sqlite_query, total_rows, result, wmOutcome>>

\* finally: close everything; then "Data export complete.", unless an
\* exception is on its way out of main.
Finally ==
    /\ pc = "finally"
    /\ pc' = IF status = "raised" THEN "crashed" ELSE "done"
    /\ UNCHANGED <<run, source, batch_size, tz, oldest_influx_timestamp,
                   formatted_timestamp, sqlite_query, cursor, total_rows,
                   rows_fetched, rows, idx, status, raisedAt, target, log, writes,
                   built, result, handed, cycles, wmOutcome>>

\* The first run ends (finished, or the process is terminated anywhere) and
\* the script is started again over the same stores.
Restart ==
    /\ run = 1
    /\ run' = 2
    /\ pc' = "start"
    /\ oldest_influx_timestamp' = NoTimestamp
    /\ formatted_timestamp' = None
    /\ sqlite_query' = build_sqlite_query(None)
    /\ cursor' = <<>> /\ total_rows' = <<>> /\ rows_fetched' = 0
    /\ rows' = <<>> /\ idx' = 1 /\ status' = "idle" /\ raisedAt' = 0
    /\ result' = <<>> /\ handed' = <<>> /\ cycles' = 0 /\ wmOutcome' = NoOutcome
    /\ log' = <<>> /\ writes' = <<>> /\ built' = {}
    /\ UNCHANGED <<source, batch_size, tz, target>>

Next == GetOldest \/ Plan \/ Execute \/ FetchAll \/ LoopIter \/ Finally \/ Restart

Spec == Init /\ [][Next]_vars

-----------------------------------------------------------------------------
(* Properties *)

Range(f) == {f[i] : i \in DOMAIN f}

Ceil(a, b) == (a + b - 1) \div b

\* cursor.execute has succeeded in this run.
Executed ==
    /\ pc \in {"fetchall", "loop", "finally", "done", "crashed"}
    /\ LogEntry("error", "sqlite", 0) \notin Range(log)

\* C1: a run of main() over a query result of M rows with batch size N,
\* M > N, that ends normally has performed ceil(M/N) non-empty fetch cycles
\* and handed exactly the query result, in order, to the conversion.
C1_EveryRowHandedOnce ==
    (pc = "done" /\ Executed /\ Len(result) > batch_size)
        => /\ handed = result
           /\ cycles = Ceil(Len(result), batch_size)

\* C2: any two points submitted in one call that share a measurement carry
\* every field name they share with the same value type.
C2_FieldTypeStable ==
    \A i, j \in 1..Len(writes) :
        writes[i].point.measurement = writes[j].point.measurement
            => \A f \in (DOMAIN writes[i].point.fields)
                            \cap (DOMAIN writes[j].point.fields) :
                   writes[i].point.fields[f].type = writes[j].point.fields[f].type

\* C3: the query built without a watermark has no upper bound, and with a
\* watermark at instant T every row it returns has last_updated_ts < T.
C3_RowsOlderThanWatermark ==
    Executed =>
        /\ ~oldest_influx_timestamp.present => ~sqlite_query.where
        /\ oldest_influx_timestamp.present =>
              \A i \in 1..Len(result) :
                  /\ result[i].last_updated_ts.t = "num"
                  /\ result[i].last_updated_ts.n < wmOutcome.first

\* C4: no row makes the conversion of a batch end with an exception.
C4_NoRowAbortsTheBatch == status # "raised"

\* The rows a run is meant to turn into points.
Convertible(row) == ConvertRow(row, tz).kind = "point"

\* C5: when the later run has ended normally, the target store holds a point
\* for every convertible row its query selected.
C5_ResumedRunMigratesAll ==
    (run = 2 /\ pc = "done" /\ Executed)
        => \A i \in 1..Len(result) :
              Convertible(result[i])
                  => \E p \in target :
                        PointKey(p) = PointKey(ConvertRow(result[i], tz).point)

\* C6: the points of a batch are submitted in one write, issued after the
\* whole batch has been converted.
C6_OneWritePerBatch ==
    /\ Len(writes) <= 1
    /\ Len(writes) > 0 => idx > Len(rows)

\* C7: a rejected write is logged as an error, does not leave the function,
\* is not submitted again, and the rows after it are still processed before
\* the function returns.
C7_WriteFailureRecoverable ==
    \A k \in 1..Len(writes) :
        ~writes[k].ok =>
            /\ LogEntry("error", "write", writes[k].row) \in Range(log)
            /\ raisedAt # writes[k].row
            /\ Cardinality({j \in 1..Len(writes) : writes[j].row = writes[k].row}) = 1
            /\ status = "returned" => idx = Len(rows) + 1

C7_Witness ==
    /\ status = "returned"
    /\ Len(rows) = 2
    /\ \E k \in 1..Len(writes) : writes[k].row = 1 /\ ~writes[k].ok
    /\ \E k \in 1..Len(writes) : writes[k].row = 2 /\ writes[k].ok

QueryFailedOrEmpty ==
    \/ wmOutcome.kind = "raise"
    \/ wmOutcome.kind = "tables" /\ wmOutcome.first = -1

\* C8: when the watermark query raises or returns no table, the watermark is
\* None (an exception having been logged), the process does not exit, the
\* query that is built has no WHERE clause and it selects every source row.
C8_WatermarkFailOpen ==
    QueryFailedOrEmpty =>
        /\ ~oldest_influx_timestamp.present
        /\ pc # "exit"
        /\ wmOutcome.kind = "raise"
              => LogEntry("error", "influx_query", 0) \in Range(log)
        /\ pc \notin {"start", "plan"} => formatted_timestamp = None
                                          /\ ~sqlite_query.where
        /\ Executed => Len(result) = Len(source)

C8_Witness ==
    /\ pc = "done" /\ Executed
    /\ wmOutcome.kind = "raise"
    /\ \E p \in target : p.measurement = Str(S_units)
    /\ Len(source) = 2 /\ Len(result) = 2
    /\ ~sqlite_query.where

\* What the measurement is to be: the unit_of_measurement attribute when it
\* is present and not empty, otherwise the placeholder.
ExpectedMeasurement(row) ==
    LET a == parse_attributes(row.shared_attrs)
    IN IF /\ a.isdict
          /\ HasKey(a.items, "unit_of_measurement")
          /\ Get(a.items, "unit_of_measurement", None) \notin {None, Str(<<>>)}
       THEN Get(a.items, "unit_of_measurement", None)
       ELSE DEFAULT_MEASUREMENT

\* C9: every submitted point's measurement is the row's unit_of_measurement
\* when present and non-empty, and 'default_measurement' otherwise.
C9_MeasurementFromUnit ==
    \A k \in 1..Len(writes) :
        writes[k].point.measurement = ExpectedMeasurement(rows[writes[k].row])

UnavailableSentinels == {Str(S_unknown), Str(S_unavailable)}

\* C10: for a processed row whose state is 'unknown' or 'unavailable' no
\* Point is constructed and no write is issued, whatever its other columns,
\* and the row does not end the loop.
C10_SentinelRowsSkipped ==
    \A i \in 1..(idx - 1) :
        (i <= Len(rows) /\ rows[i].state \in UnavailableSentinels) =>
            /\ i \notin built
            /\ \A k \in 1..Len(writes) : writes[k].row # i
            /\ raisedAt # i
            /\ \A e \in Range(log) : e.row # i

C10_Witness ==
    /\ status = "returned"
    /\ Len(rows) = 2
    /\ rows[1] = R_unavailable
    /\ \E k \in 1..Len(writes) : writes[k].row = 2

=============================================================================
